---- MODULE Spec2Model ----
(***************************************************************************)
(* Model of the RGB contract state value layer (src/src/contract/data.rs): *)
(* the Revealed tagged union, its strict (canonical) encoding and          *)
(* decoding, equality and ordering by encoding, hash concealment, the Void *)
(* state, and the contract state aggregator re-exported by                 *)
(* src/src/contract/mod.rs.                                                *)
(*                                                                         *)
(* A byte is a number in 0..255 and a byte string is a sequence of bytes.  *)
(* A Revealed value in memory is a record                                  *)
(*     [variant |-> name, repr |-> byte string, pad |-> Nat]               *)
(* For the numeric variants repr is the value's machine word written most  *)
(* significant byte first (two's complement for the signed ones, the IEEE  *)
(* bit pattern for the floats) and pad is 0.  For Bytes, AsciiString and   *)
(* UnicodeString the payload is repr followed by pad copies of the byte    *)
(* 0x41 ("A"), which lets the model hold payloads of 65535 and 65536 bytes *)
(* without writing them out in every state.                                *)
(***************************************************************************)
EXTENDS Integers, Sequences, FiniteSets, TLC

VARIABLES
  pc,        \* "input": the inputs are drawn; "done": an operation was applied
  op,        \* the operation applied
  a, b,      \* the Revealed (or Void) values the operation is applied to
  buf,       \* the byte string handed to the decoder
  tag,       \* the byte test_garbage wrote over the first byte of its copy of buf
  res, res2, \* what the operation returned (res2: for the second value)
  known,     \* aggregator: the operations seen so far, by OpId
  live,      \* aggregator: the Opouts in the live-assignment mappings
  folded,    \* aggregator: the OpIds of the operations folded into the state
  last       \* aggregator: the last operation offered and the state before it

vars == <<pc, op, a, b, buf, tag, res, res2, known, live, folded, last>>

dataVars == <<pc, op, a, b, buf, tag, res, res2>>

aggVars == <<known, live, folded, last>>

(***************************************************************************)
(* Bounds of the model.                                                    *)
(***************************************************************************)
\* longest payload of Bytes / AsciiString / UnicodeString written out in full
MaxLen == 2

\* number of operations (beside genesis) offered to the aggregator
MaxOps == 3

(***************************************************************************)
(* Byte string helpers.                                                    *)
(***************************************************************************)
Byte == 0..255

Reverse(s) == [i \in 1..Len(s) |-> s[Len(s) + 1 - i]]

Replicate(n, x) == [i \in 1..n |-> x]

Min(x, y) == IF x <= y THEN x ELSE y

\* all byte strings over alphabet S of length at most n
RECURSIVE SeqsUpTo(_, _)
SeqsUpTo(S, n) ==
  IF n = 0 THEN {<<>>}
  ELSE LET shorter == SeqsUpTo(S, n - 1)
       IN  shorter \cup {Append(s, x) : s \in {t \in shorter : Len(t) = n - 1}, x \in S}

(***************************************************************************)
(* The Revealed enum: variants, tags and payload widths.                   *)
(***************************************************************************)
UnsignedVariants == {"U8", "U16", "U32", "U64", "U128", "U256", "U512", "U1024"}

SignedVariants == {"I8", "I16", "I32", "I64", "I128", "I256", "I512", "I1024"}

FloatVariants == {"F16B", "F16", "F32", "F64", "F80", "F128", "F256"}

BlobVariants == {"Bytes", "AsciiString", "UnicodeString"}

NumericVariants == UnsignedVariants \cup SignedVariants \cup FloatVariants

Variants == NumericVariants \cup BlobVariants

\* #[strict_encoding(value = ...)] of each variant
Tag(variant) ==
  CASE variant = "U8"    -> 0     \* 0x00
    [] variant = "U16"   -> 1
    [] variant = "U32"   -> 2
    [] variant = "U64"   -> 3
    [] variant = "U128"  -> 4
    [] variant = "U256"  -> 5
    [] variant = "U512"  -> 6
    [] variant = "U1024" -> 7
    [] variant = "I8"    -> 16    \* 0x10
    [] variant = "I16"   -> 17
    [] variant = "I32"   -> 18
    [] variant = "I64"   -> 19
    [] variant = "I128"  -> 20
    [] variant = "I256"  -> 21
    [] variant = "I512"  -> 22
    [] variant = "I1024" -> 23
    [] variant = "F16B"  -> 48    \* 0x30
    [] variant = "F16"   -> 49
    [] variant = "F32"   -> 50    \* 0x32
    [] variant = "F64"   -> 51
    [] variant = "F80"   -> 52
    [] variant = "F128"  -> 53
    [] variant = "F256"  -> 54
    [] variant = "Bytes" -> 224          \* 0xE0
    [] variant = "AsciiString" -> 238    \* 0xEE
    [] variant = "UnicodeString" -> 239  \* 0xEF

RegisteredTags == {Tag(v) : v \in Variants}

VariantOfTag(t) == CHOOSE v \in Variants : Tag(v) = t

\* bytes of the payload type of a numeric variant
Width(variant) ==
  CASE variant \in {"U8", "I8"}       -> 1
    [] variant \in {"U16", "I16", "F16B", "F16"} -> 2
    [] variant \in {"U32", "I32", "F32"}   -> 4
    [] variant \in {"U64", "I64", "F64"}   -> 8
    [] variant = "F80"                     -> 10
    [] variant \in {"U128", "I128", "F128"} -> 16
    [] variant \in {"U256", "I256", "F256"} -> 32
    [] variant \in {"U512", "I512"}   -> 64
    [] variant \in {"U1024", "I1024"} -> 128

\* the largest length strict encoding can write: lengths are u16
U16Max == 65535

Value(variant, repr, pad) == [variant |-> variant, repr |-> repr, pad |-> pad]

\* the Vec<u8> / string bytes a blob value holds
Payload(v) == v.repr \o Replicate(v.pad, 65)

IsAscii(s) == \A i \in 1..Len(s) : s[i] < 128

IsCont(x) == x >= 128 /\ x <= 191

\* core::str::from_utf8 validity
RECURSIVE Utf8Valid(_)
Utf8Valid(s) ==
  IF Len(s) = 0 THEN TRUE
  ELSE LET x == s[1]
           n == Len(s)
       IN  IF x < 128 THEN Utf8Valid(Tail(s))
           ELSE IF x >= 194 /\ x <= 223
                THEN n >= 2 /\ IsCont(s[2]) /\ Utf8Valid(SubSeq(s, 3, n))
           ELSE IF x >= 224 /\ x <= 239
                THEN /\ n >= 3
                     /\ IsCont(s[2]) /\ IsCont(s[3])
                     /\ (x = 224 => s[2] >= 160)
                     /\ (x = 237 => s[2] <= 159)
                     /\ Utf8Valid(SubSeq(s, 4, n))
           ELSE IF x >= 240 /\ x <= 244
                THEN /\ n >= 4
                     /\ IsCont(s[2]) /\ IsCont(s[3]) /\ IsCont(s[4])
                     /\ (x = 240 => s[2] >= 144)
                     /\ (x = 244 => s[2] <= 143)
                     /\ Utf8Valid(SubSeq(s, 5, n))
           ELSE FALSE

(***************************************************************************)
(* Results of the operations.  Every result is a record of one shape:      *)
(* kind says which field carries it.                                       *)
(***************************************************************************)
NoValue == Value("None", <<>>, 0)

NoResult ==
  [kind |-> "None", bytes |-> <<>>, val |-> NoValue, used |-> 0,
   err |-> "None", ord |-> "None", flag |-> FALSE]

OkBytes(bytes) == [NoResult EXCEPT !.kind = "Bytes", !.bytes = bytes]

OkValue(v, used) == [NoResult EXCEPT !.kind = "Value", !.val = v, !.used = used]

Err(e) == [NoResult EXCEPT !.kind = "Err", !.err = e]

Bool(f) == [NoResult EXCEPT !.kind = "Bool", !.flag = f]

\* Option<Ordering>: ord is "Less", "Equal", "Greater" or "None"
SomeOrdering(o) == [NoResult EXCEPT !.kind = "OptionOrdering", !.ord = o]

Ordering(o) == [NoResult EXCEPT !.kind = "Ordering", !.ord = o]

\* a Confidential digest: the ideal hash of the bytes it was computed from
Digest(bytes) == [NoResult EXCEPT !.kind = "Confidential", !.bytes = bytes]

\* the Void struct as a result
VoidResult == [NoResult EXCEPT !.kind = "Void"]

\* the thread aborted on .expect("Encoding of predefined data types must not fail")
Panic == [NoResult EXCEPT !.kind = "Panic", !.err = "Encoding of predefined data types must not fail"]

(***************************************************************************)
(* Strict encoding (derive(StrictEncode) with repr = u8).                  *)
(***************************************************************************)
\* a length written as u16, little endian
LE16(n) == <<n % 256, n \div 256>>

\* the payload of a value after the tag byte
EncodePayload(v) ==
  IF v.variant \in NumericVariants
  THEN OkBytes(Reverse(v.repr))                      \* to_le_bytes
  ELSE IF Len(v.repr) + v.pad > U16Max
       THEN Err("ExceedMaxItems")
       ELSE OkBytes(LE16(Len(v.repr) + v.pad) \o Payload(v))

\* strict_serialize(&Revealed): Result<Vec<u8>, Error>
StrictSerialize(v) ==
  LET p == EncodePayload(v)
  IN  IF p.kind = "Err" THEN p ELSE OkBytes(<<Tag(v.variant)>> \o p.bytes)

(***************************************************************************)
(* Strict decoding (derive(StrictDecode) with repr = u8).                  *)
(***************************************************************************)
DecodeBlob(variant, bytes) ==
  LET n == Len(bytes)
  IN  IF n < 3 THEN Err("Io")
      ELSE LET count == bytes[2] + 256 * bytes[3]
           IN  IF n - 3 < count THEN Err("Io")
               ELSE LET data == SubSeq(bytes, 4, 3 + count)
                    IN  IF variant = "AsciiString" /\ ~IsAscii(data)
                        THEN Err("DataIntegrityError")
                        ELSE IF variant = "UnicodeString" /\ ~Utf8Valid(data)
                        THEN Err("Utf8Conversion")
                        ELSE OkValue(Value(variant, data, 0), 3 + count)

DecodeNumeric(variant, bytes) ==
  LET w == Width(variant)
  IN  IF Len(bytes) - 1 < w THEN Err("Io")
      ELSE OkValue(Value(variant, Reverse(SubSeq(bytes, 2, 1 + w)), 0), 1 + w)

\* strict_decode with a default variant: an unknown tag is read as Bytes
StrictDecodeDefaulting(bytes) ==
  IF Len(bytes) = 0 THEN Err("Io")
  ELSE LET variant == IF bytes[1] \in RegisteredTags THEN VariantOfTag(bytes[1]) ELSE "Bytes"
       IN  IF variant \in NumericVariants
           THEN DecodeNumeric(variant, bytes)
           ELSE DecodeBlob(variant, bytes)

\* Revealed::strict_decode(&bytes[..]): Result<Revealed, Error>
StrictDecode(bytes) ==
  IF Len(bytes) = 0 THEN Err("Io")
  ELSE IF bytes[1] \notin RegisteredTags THEN Err("EnumValueNotKnown")
  ELSE LET variant == VariantOfTag(bytes[1])
       IN  IF variant \in NumericVariants
           THEN DecodeNumeric(variant, bytes)
           ELSE DecodeBlob(variant, bytes)

\* strict_deserialize: strict_decode, then every byte must have been read
StrictDeserialize(bytes) ==
  LET r == StrictDecode(bytes)
  IN  IF r.kind = "Value" /\ r.used # Len(bytes)
      THEN Err("DataNotEntirelyConsumed")
      ELSE r

(***************************************************************************)
(* Equality, ordering and concealment of Revealed; concealment of Void.    *)
(***************************************************************************)
\* <[u8] as Ord>::cmp: lexicographic, a proper prefix is smaller
LexCmp(x, y) ==
  LET m == Min(Len(x), Len(y))
      D == {i \in 1..m : x[i] # y[i]}
  IN  IF D = {}
      THEN IF Len(x) < Len(y) THEN "Less"
           ELSE IF Len(x) > Len(y) THEN "Greater" ELSE "Equal"
      ELSE LET k == CHOOSE i \in D : \A j \in D : i <= j
           IN  IF x[k] < y[k] THEN "Less" ELSE "Greater"

\* impl PartialEq for Revealed
Eq(x, y) ==
  LET some == StrictSerialize(x)
      other == StrictSerialize(y)
  IN  IF some.kind = "Err" \/ other.kind = "Err" THEN Panic
      ELSE Bool(some.bytes = other.bytes)

\* impl PartialOrd for Revealed
PartialCmp(x, y) ==
  LET some == StrictSerialize(x)
      other == StrictSerialize(y)
  IN  IF some.kind = "Err" \/ other.kind = "Err" THEN Panic
      ELSE SomeOrdering(LexCmp(some.bytes, other.bytes))

\* impl Ord for Revealed
Cmp(x, y) ==
  LET p == PartialCmp(x, y)
  IN  IF p.kind = "Panic" THEN Panic
      ELSE IF p.ord = "None"
      THEN Ordering(LexCmp(StrictSerialize(x).bytes, StrictSerialize(y).bytes))
      ELSE Ordering(p.ord)

\* Confidential::hash: sha256d, modelled as an ideal (collision-free) hash
Hash(bytes) == Digest(bytes)

\* commit_conceal hashing the inner value alone, without the variant's tag
CommitConcealUntagged(v) ==
  LET some == EncodePayload(v)
  IN  IF some.kind = "Err" THEN Panic ELSE Hash(some.bytes)

\* impl CommitConceal for Revealed
CommitConceal(v) ==
  LET some == StrictSerialize(v)
  IN  IF some.kind = "Err" THEN Panic ELSE Hash(some.bytes)

\* the Void struct, its strict encoding (a unit struct: no bytes)
VoidValue == Value("Void", <<>>, 0)

\* Void concealed by the generic hash concealment of its (empty) encoding
VoidCommitConcealHashed(v) == Hash(<<>>)

\* impl CommitConceal for Void
VoidCommitConceal(v) == VoidResult

\* impl CommitEncode for Void: the number of bytes written
VoidCommitEncode(v) == 0

(***************************************************************************)
(* The hard coded test vectors of data.rs and the inputs of the model.     *)
(***************************************************************************)
U_8 == <<0, 8>>

U_16 == <<1, 16, 0>>

U_32 == <<2, 32, 0, 0, 0>>

U_64 == <<3, 64, 0, 0, 0, 0, 0, 0, 0>>

I_8 == <<8, 8>>

I_16 == <<9, 16, 0>>

I_32 == <<10, 32, 0, 0, 0>>

I_64 == <<11, 64, 0, 0, 0, 0, 0, 0, 0>>

F_32 == <<18, 20, 174, 2, 66>>

F_64 == <<19, 123, 20, 174, 71, 225, 42, 80, 64>>

BYTES ==
  <<32, 33, 0, 124, 102, 192, 40, 62, 233, 190, 152, 14, 41, 206, 50, 90, 15, 70,
    121, 239, 135, 40, 142, 215, 60, 228, 127, 196, 245, 199, 157, 25, 235, 250,
    87, 218>>

\* the vector STRING of data.rs (STRING is a reserved word)
STRING_ ==
  <<33, 17, 0, 69, 84, 72, 32, 73, 83, 32, 65, 32, 83, 69, 67, 85, 82, 73, 84, 89>>

TestVectors ==
  {U_8, U_16, U_32, U_64, I_8, I_16, I_32, I_64, F_32, F_64, BYTES, STRING_}

\* the range test_garbage writes over the tag byte: 150..255 excludes 255
GarbageRange == 150..254

ZeroExt(w, low) == Replicate(w - Len(low), 0) \o low

\* machine words of width w the model draws: 8, the bit width, all ones, zero
NumericReprs(w) ==
  { ZeroExt(w, <<8>>),
    ZeroExt(w, IF 8 * w < 256 THEN <<8 * w>> ELSE <<(8 * w) \div 256, (8 * w) % 256>>),
    Replicate(w, 255),
    Replicate(w, 0) }

\* 32.67 as f32 and f64 (the values of F_32, F_64), quiet NaNs, negative zero
FloatReprs(variant) ==
  CASE variant = "F32" -> {<<66, 2, 174, 20>>, <<127, 192, 0, 0>>, <<128, 0, 0, 0>>}
    [] variant = "F64" -> {<<64, 80, 42, 225, 71, 174, 20, 123>>,
                           <<127, 248, 0, 0, 0, 0, 0, 0>>}
    [] OTHER -> {}

NumericValues ==
  UNION { {Value(variant, r, 0) : r \in NumericReprs(Width(variant)) \cup FloatReprs(variant)}
          : variant \in NumericVariants }

\* the bytes the small payloads are made of: "A" and the two bytes of U+00E9
BlobBytes == {65, 195, 169}

SmallBlobValues ==
  {Value("Bytes", s, 0) : s \in SeqsUpTo(BlobBytes, MaxLen)}
    \cup {Value("AsciiString", s, 0) : s \in {t \in SeqsUpTo(BlobBytes, MaxLen) : IsAscii(t)}}
    \cup {Value("UnicodeString", s, 0) : s \in {t \in SeqsUpTo(BlobBytes, MaxLen) : Utf8Valid(t)}}

\* payloads of exactly u16::MAX and of u16::MAX + 1 bytes
LargeBlobValues ==
  {Value("Bytes", <<>>, U16Max)}
    \cup {Value(variant, <<>>, U16Max + 1) : variant \in BlobVariants}

\* the two values the vectors BYTES and STRING carry after their length
CorpusBlobValues ==
  {Value("Bytes", SubSeq(BYTES, 4, Len(BYTES)), 0),
   Value("UnicodeString", SubSeq(STRING_, 4, Len(STRING_)), 0)}

Values == NumericValues \cup SmallBlobValues \cup CorpusBlobValues \cup LargeBlobValues

\* the byte strings handed to the decoder: the encodings of the values written
\* out in full, the test vectors, and the test vectors cut short or extended
DecodeInputs ==
  {StrictSerialize(v).bytes : v \in NumericValues \cup SmallBlobValues \cup CorpusBlobValues}
    \cup TestVectors
    \cup {SubSeq(x, 1, Len(x) - 1) : x \in TestVectors}
    \cup {Append(x, 0) : x \in TestVectors}

ReplaceTag(bytes, t) == [bytes EXCEPT ![1] = t]

\* no byte was written over the tag
NoTag == 0 - 1

(***************************************************************************)
(* The aggregator (ContractState, Opout; the fold of the operation graph). *)
(***************************************************************************)
GenesisId == 0

OpIds == 0..MaxOps

\* an Opout: an operation and the index of one of its outputs
Opout(id, no) == <<id, no>>

\* genesis defines two outputs, every other operation one
Outputs(id) == IF id = GenesisId THEN {Opout(id, 0), Opout(id, 1)} ELSE {Opout(id, 0)}

AllOpouts == UNION {Outputs(id) : id \in OpIds}

\* the inputs an operation with this id may name: one or two outputs of others
InputChoices(id) ==
  IF id = GenesisId THEN {{}}
  ELSE {s \in SUBSET (AllOpouts \ Outputs(id)) : Cardinality(s) \in {1, 2}}

NoOp == [id |-> 0 - 1, inputs |-> {}]

\* validation that checks the referenced Opouts exist, not that they are unspent
ValidIfDefined(o, liveNow, foldedNow) ==
  o.id \notin foldedNow /\ o.inputs \subseteq UNION {Outputs(id) : id \in foldedNow}

\* validation: the operation was not folded before and every Opout it
\* references exists and is unspent
Valid(o, liveNow, foldedNow) == o.id \notin foldedNow /\ o.inputs \subseteq liveNow

\* the fold: remove the consumed Opouts, insert the produced ones
Fold(o, liveNow) == (liveNow \ o.inputs) \cup Outputs(o.id)

\* the Opouts consumed by the operations folded so far
Consumed == UNION {known[id].inputs : id \in folded}

(***************************************************************************)
(* Initial states.                                                         *)
(***************************************************************************)
AggIdle ==
  /\ known = [id \in {} |-> NoOp]
  /\ live = {}
  /\ folded = {}
  /\ last = [op |-> NoOp, accepted |-> FALSE, live |-> {}, folded |-> {}]

DataIdle ==
  /\ pc = "idle"
  /\ op = "none"
  /\ a = NoValue
  /\ b = NoValue
  /\ buf = <<>>
  /\ tag = NoTag
  /\ res = NoResult
  /\ res2 = NoResult

Init ==
  /\ pc = "input"
  /\ op = "none"
  /\ tag = NoTag
  /\ res = NoResult
  /\ res2 = NoResult
  /\ \/ a \in Values /\ b \in Values \cup {NoValue} /\ buf = <<>>
     \/ a = VoidValue /\ b = NoValue /\ buf = <<>>
     \/ a = NoValue /\ b = NoValue /\ buf \in DecodeInputs
  /\ AggIdle

InitAgg == DataIdle /\ AggIdle

(***************************************************************************)
(* Operations on one Revealed value.                                       *)
(***************************************************************************)
Done(name, r, r2) ==
  /\ pc' = "done"
  /\ op' = name
  /\ res' = r
  /\ res2' = r2
  /\ UNCHANGED <<a, b, buf, aggVars>>

OneValue == pc = "input" /\ a \in Values /\ b = NoValue

TwoValues == pc = "input" /\ a \in Values /\ b \in Values

Bytes == pc = "input" /\ a = NoValue

\* strict_serialize(&a)
Serialize ==
  /\ OneValue
  /\ Done("strict_serialize", StrictSerialize(a), NoResult)
  /\ UNCHANGED tag
 

\* strict_deserialize(&strict_serialize(&a)?)
RoundTrip ==
  /\ OneValue
  /\ LET e == StrictSerialize(a)
     IN  Done("round_trip", IF e.kind = "Err" THEN e ELSE StrictDeserialize(e.bytes), NoResult)
  /\ UNCHANGED tag

(***************************************************************************)
(* Operations on two Revealed values.                                      *)
(***************************************************************************)
\* a == b
EqOp == TwoValues /\ Done("eq", Eq(a, b), NoResult) /\ UNCHANGED tag

\* a.partial_cmp(&b)
PartialCmpOp ==
  TwoValues /\ Done("partial_cmp", PartialCmp(a, b), NoResult) /\ UNCHANGED tag

\* a.cmp(&b)
CmpOp == TwoValues /\ Done("cmp", Cmp(a, b), NoResult) /\ UNCHANGED tag

\* a.commit_conceal() and b.commit_conceal(), two calls
Conceal ==
  /\ TwoValues
  /\ Done("commit_conceal", CommitConceal(a), CommitConceal(b))
  /\ UNCHANGED tag
 

\* Void().commit_conceal()
ConcealVoid ==
  /\ pc = "input"
  /\ a = VoidValue
  /\ Done("void_commit_conceal", VoidCommitConceal(a), NoResult)
  /\ UNCHANGED tag
 

(***************************************************************************)
(* Operations on a byte string.                                            *)
(***************************************************************************)
\* Revealed::strict_decode(&buf[..])
Decode == Bytes /\ Done("strict_decode", StrictDecode(buf), NoResult) /\ UNCHANGED tag

\* test_encode!: decode the vector, encode the value again
TestEncode ==
  /\ Bytes
  /\ LET d == StrictDecode(buf)
     IN  Done("test_encode", d, IF d.kind = "Err" THEN NoResult ELSE StrictSerialize(d.val))
  /\ UNCHANGED tag
 

\* test_garbage_exhaustive!: copy the vector, overwrite the copy's first
\* byte, decode the copy.  The test draws the byte from GarbageRange; here
\* it is any byte.
Garbage ==
  /\ Bytes
  /\ Len(buf) > 0
  /\ \E t \in Byte :
       /\ tag' = t
       /\ Done("test_garbage", StrictDecode(ReplaceTag(buf, t)), NoResult)

Next ==
  \/ Serialize
  \/ RoundTrip
  \/ EqOp
  \/ PartialCmpOp
  \/ CmpOp
  \/ Conceal
  \/ ConcealVoid
  \/ Decode
  \/ TestEncode
  \/ Garbage

Spec == Init /\ [][Next]_vars

(***************************************************************************)
(* The aggregator's step: an operation is offered; it is folded when valid *)
(* and dropped otherwise.                                                  *)
(***************************************************************************)
Offer(o) ==
  /\ known' = IF o.id \in DOMAIN known THEN known ELSE (o.id :> o) @@ known
  /\ last' = [op |-> o, accepted |-> Valid(o, live, folded), live |-> live, folded |-> folded]
  /\ IF Valid(o, live, folded)
     THEN live' = Fold(o, live) /\ folded' = folded \cup {o.id}
     ELSE UNCHANGED <<live, folded>>
  /\ UNCHANGED dataVars

\* an operation seen before is offered again, unchanged (its id fixes its content)
OfferKnown == \E id \in DOMAIN known : Offer(known[id])

\* an operation not seen before is offered
OfferNew ==
  \E id \in OpIds \ DOMAIN known :
    \E ins \in InputChoices(id) : Offer([id |-> id, inputs |-> ins])

NextAgg == OfferKnown \/ OfferNew

SpecAgg == InitAgg /\ [][NextAgg]_vars

(***************************************************************************)
(* Properties.                                                             *)
(***************************************************************************)
Encodable(v) == StrictSerialize(v).kind = "Bytes"

Enc(v) == StrictSerialize(v).bytes

Flip(o) == IF o = "Less" THEN "Greater" ELSE IF o = "Greater" THEN "Less" ELSE o

U8Of8 == Value("U8", <<8>>, 0)

I8Of8 == Value("I8", <<8>>, 0)

LargestBytes == Value("Bytes", <<>>, U16Max)

OversizeBytes == Value("Bytes", <<>>, U16Max + 1)

\* C1: canonical round trip.  Decoding the encoding of any Revealed value
\* succeeds and yields a value equal to it; and every test vector decodes and
\* encodes back to the same bytes, as does every byte string that decodes
\* with no byte left over.
C1_RoundTrip ==
  /\ op = "round_trip" => res.kind = "Value" /\ Eq(res.val, a) = Bool(TRUE)
  /\ op = "test_encode" /\ (buf \in TestVectors \/ StrictDeserialize(buf).kind = "Value")
       => res.kind = "Value" /\ res2 = OkBytes(buf)

\* C2: decoding a byte string whose first byte is not a registered tag fails
\* with the unknown-tag error: no value, no default variant, nothing read of
\* the payload.
C2_UnknownTagRejected ==
  /\ op \in {"strict_decode", "test_encode"} /\ Len(buf) > 0 /\ buf[1] \notin RegisteredTags
       => res = Err("EnumValueNotKnown") /\ res.val = NoValue /\ res.used = 0
  /\ op = "test_garbage" /\ tag \notin RegisteredTags
       => res = Err("EnumValueNotKnown") /\ res.val = NoValue /\ res.used = 0

\* C2 witness: the tag 0x96 written over a vector's tag was rejected.
C2_Witness ==
  op = "test_garbage" /\ buf = U_8 /\ tag = 150 /\ res = Err("EnumValueNotKnown")

\* C3: a == b exactly when the two canonical encodings are the same bytes;
\* every value equals itself (NaN patterns too); values of different variants
\* are never equal.
C3_EqIffSameEncoding ==
  op = "eq" =>
    /\ res = Bool(TRUE) <=> (Encodable(a) /\ Encodable(b) /\ Enc(a) = Enc(b))
    /\ a = b => res = Bool(TRUE)
    /\ a.variant # b.variant => res = Bool(FALSE)

\* C4: the order is the lexicographic order of the encodings and is total:
\* partial_cmp always returns Some, cmp is Equal exactly when a == b, the
\* opposite comparison gives the opposite answer, and the order is transitive.
C4_TotalOrder ==
  /\ op = "partial_cmp" =>
       /\ res.kind = "OptionOrdering"
       /\ res.ord \in {"Less", "Equal", "Greater"}
       /\ res.ord = LexCmp(Enc(a), Enc(b))
  /\ op = "cmp" =>
       /\ res.kind = "Ordering"
       /\ res.ord = LexCmp(Enc(a), Enc(b))
       /\ res.ord = "Equal" <=> Eq(a, b) = Bool(TRUE)
       /\ Cmp(b, a) = Ordering(Flip(res.ord))
       /\ \A c \in NumericValues :
            res.ord = "Less" /\ Cmp(b, c) = Ordering("Less") => Cmp(a, c) = Ordering("Less")

\* C5: the digest commit_conceal returns is the hash of the canonical
\* encoding and of nothing else: the same value, or two equal values, conceal
\* alike, and two values whose encodings differ conceal to different digests.
C5_ConcealDeterminism ==
  op = "commit_conceal" =>
    /\ Encodable(a) => res = Hash(Enc(a))
    /\ Encodable(b) => res2 = Hash(Enc(b))
    /\ a = b \/ Eq(a, b) = Bool(TRUE) => res = res2
    /\ Encodable(a) /\ Encodable(b) /\ Enc(a) # Enc(b)
         => res.kind = "Confidential" /\ res2.kind = "Confidential" /\ res # res2

\* C5 witness: u8 8 and i8 8, which share their payload byte, were concealed
\* to two different digests.
C5_Witness ==
  /\ op = "commit_conceal"
  /\ a = U8Of8
  /\ b = I8Of8
  /\ res.kind = "Confidential"
  /\ res2.kind = "Confidential"
  /\ res # res2

\* C6: encoding is total: strict_serialize succeeds on every value, so ==,
\* partial_cmp, cmp and commit_conceal always return and never abort.
C6_EncodingTotal ==
  /\ op = "strict_serialize" => res.kind = "Bytes"
  /\ op \in {"eq", "partial_cmp", "cmp", "commit_conceal"}
       => res.kind # "Panic" /\ res2.kind # "Panic"

\* C7: the first byte of an encoding is the variant's tag: 0x00 for u8, 0x08
\* for i8, 0x32 for f32, 0xE0 for Bytes, 0xEE for AsciiString, 0xEF for
\* UnicodeString; the tags are pairwise distinct; a fixed-width number follows
\* its tag as width/8 little-endian bytes; u8 8 encodes as [0x00, 0x08].
C7_Tags ==
  op = "strict_serialize" /\ res.kind = "Bytes" =>
    /\ a.variant = "U8" => res.bytes[1] = 0
    /\ a.variant = "I8" => res.bytes[1] = 8
    /\ a.variant = "F32" => res.bytes[1] = 50
    /\ a.variant = "Bytes" => res.bytes[1] = 224
    /\ a.variant = "AsciiString" => res.bytes[1] = 238
    /\ a.variant = "UnicodeString" => res.bytes[1] = 239
    /\ \A v, w \in Variants : v # w => Tag(v) # Tag(w)
    /\ a.variant \in NumericVariants =>
         /\ Len(res.bytes) = 1 + Width(a.variant)
         /\ \A i \in 1..Width(a.variant) :
              res.bytes[1 + i] = a.repr[Width(a.variant) + 1 - i]
    /\ a = U8Of8 => res.bytes = <<0, 8>>

\* C8 as stated: concealing Void yields the hash of Void's canonical encoding
\* (which is empty), not the Void value.
C8_VoidConcealIsHash ==
  op = "void_commit_conceal" => res = Hash(<<>>) /\ res.kind # "Void"

\* C8 as amended: concealing Void yields the Void value itself; nothing is
\* hashed, and Void's commit encoding writes no byte.
C8_VoidConcealIsVoid ==
  op = "void_commit_conceal" =>
    /\ res = VoidResult
    /\ res.kind # "Confidential"
    /\ VoidCommitEncode(a) = 0

\* C8 witness: a Void value was concealed and the Void value came back.
C8_Witness ==
  op = "void_commit_conceal" /\ a = VoidValue /\ pc = "done" /\ res.kind = "Void"

\* C9: with any byte of 150..254 written over its tag, a valid encoding (or
\* a test vector) fails to decode, and fails with the unknown-tag error.
C9_GarbageRejected ==
  op = "test_garbage"
    /\ (buf \in TestVectors \/ StrictDeserialize(buf).kind = "Value")
    /\ tag \in GarbageRange
  => res = Err("EnumValueNotKnown")

\* C10: single-use seal.  An Opout consumed by a folded operation is not
\* live; no two folded operations reference the same Opout; an operation that
\* was rejected left the live assignments and the folded set as they were,
\* and one that was accepted referenced only Opouts live before it.
C10_SingleUse ==
  /\ Consumed \cap live = {}
  /\ \A i, j \in folded : i # j => known[i].inputs \cap known[j].inputs = {}
  /\ last.op # NoOp /\ ~last.accepted => live = last.live /\ folded = last.folded
  /\ last.accepted =>
       /\ last.op.inputs \subseteq last.live
       /\ last.op.inputs \cap UNION {known[id].inputs : id \in last.folded} = {}

\* C10 witness: an operation naming an Opout that a folded operation had
\* consumed was offered and rejected.
C10_Witness ==
  /\ last.op # NoOp
  /\ ~last.accepted
  /\ last.op.inputs \cap Consumed # {}
  /\ last.op.inputs \subseteq UNION {Outputs(id) : id \in folded}

(***************************************************************************)
(* What the code does where C1, C3, C4, C7 and C9 fail: the same           *)
(* statements, kept to the values strict_serialize can encode (payloads of *)
(* at most u16::MAX bytes) and to the tags the enum declares.              *)
(***************************************************************************)
\* round trip of every value that has an encoding, and of every byte string
\* that decodes with no byte left over
RoundTripOfEncodable ==
  /\ op = "round_trip" /\ Encodable(a) => res.kind = "Value" /\ Eq(res.val, a) = Bool(TRUE)
  /\ op = "test_encode" /\ StrictDeserialize(buf).kind = "Value"
       => res.kind = "Value" /\ res2 = OkBytes(buf)

\* the test vectors the enum's tags accept, and the ones it rejects
VectorsAccepted ==
  op = "test_encode" /\ buf \in TestVectors =>
    IF buf \in {U_8, U_16, U_32, U_64, F_32, F_64}
    THEN res2 = OkBytes(buf)
    ELSE res = Err("EnumValueNotKnown")

\* equality of values that have an encoding
EqOfEncodable ==
  op = "eq" /\ Encodable(a) /\ Encodable(b) =>
    /\ res = Bool(Enc(a) = Enc(b))
    /\ a = b => res = Bool(TRUE)
    /\ a.variant # b.variant => res = Bool(FALSE)

\* the order of values that have an encoding
OrderOfEncodable ==
  /\ op = "partial_cmp" /\ Encodable(a) /\ Encodable(b)
       => res = SomeOrdering(LexCmp(Enc(a), Enc(b))) /\ res.ord # "None"
  /\ op = "cmp" /\ Encodable(a) /\ Encodable(b) =>
       /\ res = Ordering(LexCmp(Enc(a), Enc(b)))
       /\ res.ord = "Equal" <=> Eq(a, b) = Bool(TRUE)
       /\ Cmp(b, a) = Ordering(Flip(res.ord))
       /\ \A c \in NumericValues :
            res.ord = "Less" /\ Cmp(b, c) = Ordering("Less") => Cmp(a, c) = Ordering("Less")

\* the tag the enum gives i8 is 0x10
TagOfI8 ==
  op = "strict_serialize" /\ a.variant = "I8" => res.bytes[1] = 16

\* the bytes of 150..254 that are not tags of Bytes, AsciiString, UnicodeString
GarbageOfUnregistered ==
  op = "test_garbage" /\ tag \in GarbageRange \ RegisteredTags
    => res = Err("EnumValueNotKnown")

\* the bytes of 150..254 the enum registers
RegisteredInGarbageRange == GarbageRange \cap RegisteredTags = {224, 238, 239}

\* a payload one byte longer than u16::MAX has no encoding, and every operation
\* that encodes it aborts
OversizeAborts ==
  /\ op = "strict_serialize" /\ a = OversizeBytes => res = Err("ExceedMaxItems")
  /\ op \in {"eq", "partial_cmp", "cmp", "commit_conceal"} /\ a = OversizeBytes => res = Panic

\* the largest payload is encoded, with the length bytes FF FF
LargestEncoded ==
  op = "strict_serialize" /\ a = LargestBytes =>
    /\ res.kind = "Bytes"
    /\ Len(res.bytes) = U16Max + 3
    /\ SubSeq(res.bytes, 1, 3) = <<224, 255, 255>>

====
